---- MODULE Spec2Model ----
(***************************************************************************)
(* Client side of the TorchScript RPC primitives of                        *)
(* torch/csrc/distributed/rpc/torchscript_functions.cpp:                   *)
(*   rpcTorchscript    -- send a ScriptCall, return a typed JitFuture      *)
(*   remoteTorchscript -- send a ScriptRemoteCall, return a User/Owner RRef*)
(* Every invocation is a call c in Calls, run by its own thread; each      *)
(* statement that touches shared state (the agent, the transport future,   *)
(* the RRefContext) is one step of that thread.  The transport settles     *)
(* the futures on a thread of its own.                                     *)
(***************************************************************************)
EXTENDS Integers, FiniteSets, Sequences, TLC

\* Number of calls that are issued (each by its own thread).
MaxCalls == 2

Calls == 1..MaxCalls

\* Worker names handed to the calls; "ghost" is known to no agent.
WorkerNames == {"A", "B", "ghost"}

\* rpcTorchscript does not look at the locality of the destination: one known
\* and one unknown name cover it.
RpcWorkerNames == {"B", "ghost"}
\* The agent's name -> id table.
WorkerIds == [A |-> "idA", B |-> "idB"]

\* functionSchema.returns().size() of the target functions.
ReturnArities == {1, 2}

\* Ways a pending transport future settles: a response that decodes, a
\* response that does not decode, or an error (a timeout is reported by the
\* transport as such an error; the code reads hasError() and nothing else).
Successes == {"ok", "undecodable"}
Errors == {"TransportFailure"}
Outcomes == Successes \cup Errors

\* What a build can make of the dereference of a null wp.lock() (lines 69, 129,
\* 156): a fault of the process, or nothing.
LockFailOutcomes == {"fault", "noop"}

\* Globally unique ids handed out by the RRefContext (two per User RRef).
Ids == 1..(2 * MaxCalls)

VARIABLES
  calls,   \* calls[c]: the frame of call c and the futures it made
  reg      \* the RRefContext of the calling worker

vars == <<calls, reg>>

InitCall ==
  [ pc         |-> "idle",    \* position of the calling thread
    kind       |-> "none",    \* "rpc" (rpcTorchscript) | "remote" (remoteTorchscript)
    dst        |-> "none",    \* dstWorkerName
    arity      |-> 1,         \* functionSchema.returns().size()
    prof       |-> FALSE,     \* shouldProfile
    spanOpens  |-> 0,         \* record_function_enter calls
    spanCloses |-> 0,         \* end callbacks run on the span
    wrapped    |-> FALSE,     \* _call_end_callbacks_on_fut attached to futPtr
    sends      |-> 0,         \* sendMessageWithAutograd invocations
    descr      |-> <<0, 0>>,  \* (rrefId, forkId) carried by the ScriptRemoteCall
    tf         |-> "none",    \* jitFuture: "none" | "pending" | an outcome
    cbReg      |-> FALSE,     \* callback stored in jitFuture
    cbRuns     |-> 0,         \* runs of that callback
    R          |-> "none",    \* futPtr: "none" | "pending" | "value" | "failed"
    rErr       |-> "none",    \* the error futPtr carries
    rSets      |-> 0,         \* markCompleted/setError calls on futPtr
    raised     |-> "none",    \* exception that left the call
    thrown     |-> "none",    \* exception that left the callback on the settling thread
    ret        |-> "none",    \* what the call returned: "future" | "user" | "owner"
    rrefId     |-> 0,
    forkId     |-> 0,
    read       |-> "none",
    expired    |-> "none" ]  \* outcome of a callback run whose wp.lock() was null  \* what the caller last read from the returned Owner RRef

InitReg ==
  [ nextId       |-> 1,
    users        |-> {},                  \* User RRefs: <<ownerId, rrefId, forkId>>
    owners       |-> {},                  \* Owner RRefs: rrefId
    pendingUsers |-> {},                  \* fork ids registered as pending
    forks        |-> {},                  \* <<rrefId, forkId>> forks of owners
    confirmCalls |-> [i \in Ids |-> 0],   \* confirmPendingUser invocations per fork id
    confirmed    |-> {},                  \* forks that went pending -> confirmed
    released     |-> {},                  \* forks released on failure
    misrouted    |-> {},                  \* confirmations for a fork that is not pending
    finalCalls   |-> [i \in Ids |-> 0],   \* finishCreatingOwnerRRef invocations per rref id
    ownerState   |-> [i \in Ids |-> "none"] ]

Init ==
  /\ calls = [c \in Calls |-> InitCall]
  /\ reg = InitReg


----
\* Helpers.

Settled(tf) == tf \in Outcomes

\* RpcAgent::getWorkerInfo(name): the id of a known worker; an unknown name throws.
getWorkerInfo(name) ==
  IF name \in DOMAIN WorkerIds THEN WorkerIds[name] ELSE "unknown"

\* RRefContext::getWorkerId(): the id of the calling worker.
getWorkerId == WorkerIds["A"]

\* Future returned by _call_end_callbacks_on_fut: the span's end callbacks run
\* when futPtr settles.
EndCallbacksOnSettle(r) ==
  IF r.wrapped THEN [r EXCEPT !.spanCloses = @ + 1] ELSE r

----
\* rpcTorchscript

\* Lines 27-42: open the profiling span when shouldProfile.
rpcEnter(r, dst, ar, prof) ==
  [r EXCEPT !.pc = "rpc_send", !.kind = "rpc", !.dst = dst, !.arity = ar,
            !.prof = prof, !.spanOpens = IF prof THEN 1 ELSE 0]

\* rpcSend without the resolution of the destination name.
rpcSend_NoResolve(r) ==
  [r EXCEPT !.pc = "rpc_returns", !.sends = @ + 1, !.tf = "pending"]

\* Lines 43-51: getWorkerInfo(dstWorkerName) is an argument of
\* sendMessageWithAutograd, so it throws before the send is invoked.
rpcSend(r) ==
  IF getWorkerInfo(r.dst) = "unknown"
  THEN [r EXCEPT !.pc = "raised", !.raised = "UnknownWorker"]
  ELSE [r EXCEPT !.pc = "rpc_returns", !.sends = @ + 1, !.tf = "pending"]

\* rpcCheckReturns without the assertion.
rpcCheckReturns_NoAssert(r) ==
  [r EXCEPT !.pc = "rpc_addcb", !.R = "pending"]

\* Lines 54-65: the arity assertion, then futPtr = createInstance(returnType).
rpcCheckReturns(r) ==
  IF r.arity # 1
  THEN [r EXCEPT !.pc = "raised", !.raised = "SchemaMismatch"]
  ELSE [r EXCEPT !.pc = "rpc_addcb", !.R = "pending"]

\* Lines 27-65: the statements up to the first access to jitFuture after the
\* send touch nothing another thread reads, so they are one step of the caller.
rpcEnterSendCheck(r, dst, ar, prof) ==
  LET r1 == rpcSend(rpcEnter(r, dst, ar, prof)) IN
  IF r1.pc = "raised" THEN r1 ELSE rpcCheckReturns(r1)

\* rpcCallback that does not look at hasError().
rpcCallback_ErrorAsValue(r) ==
  IF r.tf = "undecodable"
  THEN [r EXCEPT !.cbRuns = @ + 1, !.thrown = "DecodeError"]
  ELSE EndCallbacksOnSettle(
         [r EXCEPT !.cbRuns = @ + 1, !.R = "value", !.rSets = @ + 1])

\* Lines 67-77: the callback on jitFuture.  deserializeRespToIValue is evaluated
\* as the argument of markCompleted: when it throws, markCompleted is not called
\* and the exception leaves the callback.
rpcCallback(r) ==
  IF r.tf \in Errors
  THEN EndCallbacksOnSettle(
         [r EXCEPT !.cbRuns = @ + 1, !.R = "failed", !.rErr = r.tf, !.rSets = @ + 1])
  ELSE IF r.tf = "undecodable"
  THEN [r EXCEPT !.cbRuns = @ + 1, !.thrown = "DecodeError"]
  ELSE EndCallbacksOnSettle(
         [r EXCEPT !.cbRuns = @ + 1, !.R = "value", !.rSets = @ + 1])

\* Lines 66-77: addCallback stores the callback, or runs it at once on the
\* calling thread when jitFuture has settled already; an exception of the
\* callback then leaves rpcTorchscript.
rpcAddCallback(r) ==
  IF Settled(r.tf)
  THEN LET r2 == rpcCallback(r) IN
       IF r2.thrown # "none"
       THEN [r2 EXCEPT !.pc = "raised", !.raised = r2.thrown, !.thrown = "none"]
       ELSE [r2 EXCEPT !.pc = "rpc_ret"]
  ELSE [r EXCEPT !.pc = "rpc_ret", !.cbReg = TRUE]

\* Lines 78-83: wrap futPtr when profiling; a futPtr that has settled already
\* runs the end callbacks at once.
rpcReturn(r) ==
  LET r1 == [r EXCEPT !.pc = "returned", !.ret = "future"] IN
  IF r.prof
  THEN IF r.R \in {"value", "failed"}
       THEN EndCallbacksOnSettle([r1 EXCEPT !.wrapped = TRUE])
       ELSE [r1 EXCEPT !.wrapped = TRUE]
  ELSE r1

----
\* RRefContext and the callbacks of rref_context (interface of the registry).

createUserRRefReg(g, ownerId) ==
  [g EXCEPT !.nextId = @ + 2,
            !.users = @ \cup {<<ownerId, g.nextId, g.nextId + 1>>}]

createOwnerRRefReg(g) ==
  [g EXCEPT !.nextId = @ + 1, !.owners = @ \cup {g.nextId}]

addPendingUser(g, forkId) ==
  [g EXCEPT !.pendingUsers = @ \cup {forkId}]

addSelfAsFork(g, rrefId) ==
  [g EXCEPT !.forks = @ \cup {<<rrefId, rrefId>>}]

\* callback::confirmPendingUser: success confirms the pending fork, failure
\* releases it; a fork that is not registered as pending is misrouted.
confirmPendingUser(g, tf, forkId) ==
  LET known == forkId \in g.pendingUsers IN
  [g EXCEPT !.confirmCalls[forkId] = @ + 1,
            !.pendingUsers = @ \ {forkId},
            !.confirmed = IF known /\ tf = "ok" THEN @ \cup {forkId} ELSE @,
            !.released = IF known /\ tf # "ok" THEN @ \cup {forkId} ELSE @,
            !.misrouted = IF known THEN @ ELSE @ \cup {forkId}]

\* callback::finishCreatingOwnerRRef: the Owner RRef becomes ready or failed.
finishCreatingOwnerRRef(g, tf, rrefId) ==
  [g EXCEPT !.finalCalls[rrefId] = @ + 1,
            !.ownerState[rrefId] = IF tf = "ok" THEN "ready" ELSE "failed"]

----
\* remoteTorchscript

\* remoteTorchscript without the branch of line 107: every call takes the
\* User RRef path.
remoteEnter_AlwaysUser(r, dst, ar) ==
  LET r1 == [r EXCEPT !.kind = "remote", !.dst = dst, !.arity = ar] IN
  IF getWorkerInfo(dst) = "unknown"
  THEN [r1 EXCEPT !.pc = "raised", !.raised = "UnknownWorker"]
  ELSE IF ar # 1
  THEN [r1 EXCEPT !.pc = "raised", !.raised = "SchemaMismatch"]
  ELSE [r1 EXCEPT !.pc = "rem_createUser"]

\* Lines 93-107: resolve the destination, assert the arity, branch on locality.
remoteEnter(r, dst, ar) ==
  LET r1 == [r EXCEPT !.kind = "remote", !.dst = dst, !.arity = ar] IN
  IF getWorkerInfo(dst) = "unknown"
  THEN [r1 EXCEPT !.pc = "raised", !.raised = "UnknownWorker"]
  ELSE IF ar # 1
  THEN [r1 EXCEPT !.pc = "raised", !.raised = "SchemaMismatch"]
  ELSE IF getWorkerId # getWorkerInfo(dst)
  THEN [r1 EXCEPT !.pc = "rem_createUser"]
  ELSE [r1 EXCEPT !.pc = "rem_createOwner"]

\* The call takes ids that are not those of the User RRef it created.
remoteCreateUser_Fixed(r, g) ==
  [r EXCEPT !.pc = "rem_sendUser", !.rrefId = 1, !.forkId = 2]

\* Line 108.
remoteCreateUser(r, g) ==
  [r EXCEPT !.pc = "rem_sendUser", !.rrefId = g.nextId, !.forkId = g.nextId + 1]

\* Lines 110-122: toMessage and sendMessageWithAutograd either hand the message
\* to the agent or throw; nothing catches the exception.
remoteSendUser(r, sent) ==
  IF sent
  THEN [r EXCEPT !.pc = "rem_addPending", !.descr = <<r.rrefId, r.forkId>>,
                 !.sends = @ + 1, !.tf = "pending"]
  ELSE [r EXCEPT !.pc = "raised", !.raised = "SendFailure"]

\* Lines 124-125: the call's side; the registry's side is addPendingUser.
remoteAddPendingUser(r) ==
  [r EXCEPT !.pc = "rem_addcbUser"]

\* addPendingUser called with the RRef id instead of the fork id.
remoteAddPendingUserReg_WrongId(r, g) == addPendingUser(g, r.rrefId)

\* remoteTorchscript without the addPendingUser of line 125.
remoteAddPendingUserReg_Skip(r, g) == g

remoteAddPendingUserReg(r, g) == addPendingUser(g, r.forkId)

\* Lines 126-132: the callback captures forkId; addCallback runs it at once
\* when jitFuture has settled already.
remoteAddCallbackUser(r) ==
  IF Settled(r.tf)
  THEN [r EXCEPT !.pc = "returned", !.ret = "user", !.cbRuns = @ + 1]
  ELSE [r EXCEPT !.pc = "returned", !.ret = "user", !.cbReg = TRUE]

\* addCallback that drops a callback whose future has settled already.
remoteAddCallbackUserReg_NoRun(r, g) == g

\* The confirmation called directly instead of from the callback.
remoteAddCallbackUserReg_Eager(r, g) == confirmPendingUser(g, r.tf, r.forkId)

remoteAddCallbackUserReg(r, g) ==
  IF Settled(r.tf) THEN confirmPendingUser(g, r.tf, r.forkId) ELSE g

\* Line 134.
remoteCreateOwner(r, g) ==
  [r EXCEPT !.pc = "rem_selfFork", !.rrefId = g.nextId]

\* Line 136.
remoteAddSelfAsFork(r) ==
  [r EXCEPT !.pc = "rem_sendOwner"]

\* remoteTorchscript without the addSelfAsFork of line 136.
remoteAddSelfAsForkReg_Skip(r, g) == g

remoteAddSelfAsForkReg(r, g) == addSelfAsFork(g, r.rrefId)

\* The message built with the fork id of a User RRef, which an Owner RRef
\* does not have.
remoteSendOwner_ForkZero(r, sent) ==
  IF sent
  THEN [r EXCEPT !.pc = "rem_addcbOwner", !.descr = <<r.rrefId, r.forkId>>,
                 !.sends = @ + 1, !.tf = "pending"]
  ELSE [r EXCEPT !.pc = "raised", !.raised = "SendFailure"]

\* Lines 138-150: as lines 110-122.
remoteSendOwner(r, sent) ==
  IF sent
  THEN [r EXCEPT !.pc = "rem_addcbOwner", !.descr = <<r.rrefId, r.rrefId>>,
                 !.sends = @ + 1, !.tf = "pending"]
  ELSE [r EXCEPT !.pc = "raised", !.raised = "SendFailure"]

\* Lines 152-158.
remoteAddCallbackOwner(r) ==
  IF Settled(r.tf)
  THEN [r EXCEPT !.pc = "returned", !.ret = "owner", !.cbRuns = @ + 1]
  ELSE [r EXCEPT !.pc = "returned", !.ret = "owner", !.cbReg = TRUE]

\* addCallback that drops a callback whose future has settled already.
remoteAddCallbackOwnerReg_NoRun(r, g) == g

remoteAddCallbackOwnerReg(r, g) ==
  IF Settled(r.tf) THEN finishCreatingOwnerRRef(g, r.tf, r.rrefId) ELSE g

\* OwnerRRef::getValue by the holder of the returned Owner RRef: a finalized
\* reference yields its value or its failure (a read of a reference that is
\* not finalized waits, it is no step).
readOwnerValue(r, g) ==
  [r EXCEPT !.read = g.ownerState[r.rrefId]]

----
\* The transport settles jitFuture; the stored callback runs on its thread.

settleCall(r, o) ==
  LET r1 == [r EXCEPT !.tf = o] IN
  IF ~r.cbReg THEN r1
  ELSE IF r.kind = "rpc" THEN rpcCallback(r1)
  ELSE [r1 EXCEPT !.cbRuns = @ + 1]

settleReg(r, g, o) ==
  IF ~r.cbReg \/ r.kind = "rpc" THEN g
  ELSE IF r.ret = "user" THEN confirmPendingUser(g, o, r.forkId)
  ELSE finishCreatingOwnerRRef(g, o, r.rrefId)

\* The stored callback runs when jitFuture has lost its last strong holder:
\* wp.lock() is null and lines 69, 129 and 156 dereference it unchecked.
callbackExpired(r, o) ==
  [r EXCEPT !.tf = "destroyed", !.expired = o]

----
\* Actions.

\* Calls are issued in the order of their numbers.
MayStart(c) ==
  /\ calls[c].pc = "idle"
  /\ IF c = 1 THEN TRUE ELSE calls[c - 1].pc # "idle"

StepCall(c, r) == calls' = [calls EXCEPT ![c] = r]

RpcEnter(c) ==
  /\ MayStart(c)
  /\ \E dst \in RpcWorkerNames, ar \in ReturnArities, prof \in BOOLEAN :
       StepCall(c, rpcEnterSendCheck(calls[c], dst, ar, prof))
  /\ UNCHANGED reg

RpcAddCallback(c) ==
  /\ calls[c].pc = "rpc_addcb"
  /\ StepCall(c, rpcAddCallback(calls[c]))
  /\ UNCHANGED reg

RpcReturn(c) ==
  /\ calls[c].pc = "rpc_ret"
  /\ StepCall(c, rpcReturn(calls[c]))
  /\ UNCHANGED reg

\* remoteTorchscript creating the Owner RRef before lines 94-104.
RemoteEnter_CreateFirst(c) ==
  /\ MayStart(c)
  /\ \E dst \in WorkerNames, ar \in ReturnArities :
       StepCall(c, remoteEnter(calls[c], dst, ar))
  /\ reg' = createOwnerRRefReg(reg)

RemoteEnter(c) ==
  /\ MayStart(c)
  /\ \E dst \in WorkerNames, ar \in ReturnArities :
       StepCall(c, remoteEnter(calls[c], dst, ar))
  /\ UNCHANGED reg

RemoteCreateUser(c) ==
  /\ calls[c].pc = "rem_createUser"
  /\ StepCall(c, remoteCreateUser(calls[c], reg))
  /\ reg' = createUserRRefReg(reg, getWorkerInfo(calls[c].dst))

RemoteSendUser(c) ==
  /\ calls[c].pc = "rem_sendUser"
  /\ \E sent \in BOOLEAN : StepCall(c, remoteSendUser(calls[c], sent))
  /\ UNCHANGED reg

RemoteAddPendingUser(c) ==
  /\ calls[c].pc = "rem_addPending"
  /\ StepCall(c, remoteAddPendingUser(calls[c]))
  /\ reg' = remoteAddPendingUserReg(calls[c], reg)

RemoteAddCallbackUser(c) ==
  /\ calls[c].pc = "rem_addcbUser"
  /\ StepCall(c, remoteAddCallbackUser(calls[c]))
  /\ reg' = remoteAddCallbackUserReg(calls[c], reg)

RemoteCreateOwner(c) ==
  /\ calls[c].pc = "rem_createOwner"
  /\ StepCall(c, remoteCreateOwner(calls[c], reg))
  /\ reg' = createOwnerRRefReg(reg)

RemoteAddSelfAsFork(c) ==
  /\ calls[c].pc = "rem_selfFork"
  /\ StepCall(c, remoteAddSelfAsFork(calls[c]))
  /\ reg' = remoteAddSelfAsForkReg(calls[c], reg)

RemoteSendOwner(c) ==
  /\ calls[c].pc = "rem_sendOwner"
  /\ \E sent \in BOOLEAN : StepCall(c, remoteSendOwner(calls[c], sent))
  /\ UNCHANGED reg

RemoteAddCallbackOwner(c) ==
  /\ calls[c].pc = "rem_addcbOwner"
  /\ StepCall(c, remoteAddCallbackOwner(calls[c]))
  /\ reg' = remoteAddCallbackOwnerReg(calls[c], reg)

ReadOwnerValue(c) ==
  /\ calls[c].ret = "owner"
  /\ reg.ownerState[calls[c].rrefId] # "none"
  /\ StepCall(c, readOwnerValue(calls[c], reg))
  /\ UNCHANGED reg

CallbackExpired(c) ==
  /\ calls[c].pc = "returned"
  /\ calls[c].cbReg
  /\ calls[c].tf = "pending"
  /\ \E o \in LockFailOutcomes : StepCall(c, callbackExpired(calls[c], o))
  /\ UNCHANGED reg

Settle(c) ==
  /\ calls[c].tf = "pending"
  /\ \E o \in Outcomes :
       /\ StepCall(c, settleCall(calls[c], o))
       /\ reg' = settleReg(calls[c], reg, o)

Next ==
  \E c \in Calls :
    \/ RpcEnter(c)
    \/ RpcAddCallback(c)
    \/ RpcReturn(c)
    \/ RemoteEnter(c)
    \/ RemoteCreateUser(c)
    \/ RemoteSendUser(c)
    \/ RemoteAddPendingUser(c)
    \/ RemoteAddCallbackUser(c)
    \/ RemoteCreateOwner(c)
    \/ RemoteAddSelfAsFork(c)
    \/ RemoteSendOwner(c)
    \/ RemoteAddCallbackOwner(c)
    \/ ReadOwnerValue(c)
    \/ CallbackExpired(c)
    \/ Settle(c)

Spec == Init /\ [][Next]_vars

----
\* Properties.

IsRpc(c) == calls[c].kind = "rpc"

IsRemote(c) == calls[c].kind = "remote"

Resolved(c) == calls[c].kind # "none" /\ getWorkerInfo(calls[c].dst) # "unknown"

ToOther(c) == Resolved(c) /\ getWorkerInfo(calls[c].dst) # getWorkerId

ToSelf(c) == Resolved(c) /\ getWorkerInfo(calls[c].dst) = getWorkerId

\* Fork ids that have been registered as pending at some time.
EverPending == reg.pendingUsers \cup reg.confirmed \cup reg.released

UserOf(c) == <<getWorkerInfo(calls[c].dst), calls[c].rrefId, calls[c].forkId>>

SelfForkOf(c) == <<calls[c].rrefId, calls[c].rrefId>>

FutSettled(c) == calls[c].R \in {"value", "failed"}

C2_SelfForkBeforeSend ==
  \A c \in Calls :
    (IsRemote(c) /\ ToSelf(c)) =>
      /\ calls[c].pc = "rem_sendOwner" =>
           (calls[c].sends = 0 /\ calls[c].tf = "none" /\ SelfForkOf(c) \in reg.forks)
      /\ (calls[c].sends > 0 \/ calls[c].tf # "none" \/ calls[c].cbRuns > 0) =>
           SelfForkOf(c) \in reg.forks

C2_Witness ==
  \E c \in Calls :
    /\ IsRemote(c) /\ ToSelf(c)
    /\ calls[c].sends = 1 /\ calls[c].tf = "pending"
    /\ SelfForkOf(c) \in reg.forks

\* C3 (as stated): the future returned by rpcTorchscript is settled exactly once
\* as soon as the transport future has settled: never left pending, never set
\* twice.
C3_SettlesExactlyOnce ==
  \A c \in Calls :
    IsRpc(c) =>
      /\ calls[c].rSets <= 1
      /\ (calls[c].pc = "returned" /\ Settled(calls[c].tf)) =>
           (FutSettled(c) /\ calls[c].rSets = 1)

\* C4: when the transport future of rpcTorchscript has settled as failed, the
\* completion callback fails the returned future with that same error in the
\* step in which it runs; the future never holds a value and the message is
\* sent once only.
C4_FailurePropagates ==
  \A c \in Calls :
    (IsRpc(c) /\ calls[c].tf \in Errors) =>
      /\ calls[c].sends = 1
      /\ calls[c].R # "value"
      /\ calls[c].cbRuns <= 1
      /\ calls[c].pc \in {"rpc_ret", "returned"} => calls[c].cbRuns = 1
      /\ calls[c].cbRuns = 1 =>
           (calls[c].R = "failed" /\ calls[c].rErr = calls[c].tf /\ calls[c].rSets = 1)

C4_Witness ==
  \E c \in Calls :
    /\ IsRpc(c) /\ calls[c].tf \in Errors
    /\ calls[c].pc = "returned" /\ calls[c].R = "failed"

\* C5 (as stated): when the transport future of rpcTorchscript has settled
\* with a response that does not decode and the callback has run, the returned
\* future is failed with DecodeError and the error went nowhere else.
C5_DecodeErrorSettles ==
  \A c \in Calls :
    (IsRpc(c) /\ calls[c].tf = "undecodable" /\ calls[c].cbRuns > 0) =>
      /\ calls[c].R = "failed" /\ calls[c].rErr = "DecodeError"
      /\ calls[c].thrown = "none" /\ calls[c].raised = "none"

\* C6 (as stated): a call that failed synchronously has handed no message to
\* the transport.
C6_NoSendBeforeSyncFailure ==
  \A c \in Calls :
    calls[c].raised # "none" => calls[c].sends = 0

\* C7 (as stated): a span opened by rpcTorchscript is closed exactly once when
\* the call has ended: by a synchronous failure, or by the returned future
\* settling.
C7_SpanClosedOnEveryExit ==
  \A c \in Calls :
    (IsRpc(c) /\ calls[c].spanOpens = 1) =>
      /\ calls[c].spanCloses <= 1
      /\ (calls[c].pc = "raised" \/ (calls[c].pc = "returned" /\ FutSettled(c))) =>
           calls[c].spanCloses = 1

\* C8: rpcTorchscript with a destination name that does not resolve raises
\* UnknownWorker and the transport receives no send.
C8_UnknownWorkerNoSend ==
  \A c \in Calls :
    (IsRpc(c) /\ ~Resolved(c)) =>
      /\ calls[c].sends = 0 /\ calls[c].tf = "none"
      /\ calls[c].ret = "none" /\ calls[c].R = "none"
      /\ calls[c].pc = "raised" /\ calls[c].raised = "UnknownWorker"

C8_Witness ==
  \E c \in Calls :
    /\ IsRpc(c) /\ ~Resolved(c)
    /\ calls[c].pc = "raised" /\ calls[c].raised = "UnknownWorker"

\* C9: with a destination that resolves, to the calling worker or to another,
\* a return arity other than one makes rpcTorchscript and remoteTorchscript
\* raise SchemaMismatch; no future and no RRef is made or returned.
C9_ArityFailsSynchronously ==
  \A c \in Calls :
    (Resolved(c) /\ calls[c].arity # 1) =>
      /\ calls[c].ret = "none" /\ calls[c].R = "none" /\ calls[c].rrefId = 0
      /\ calls[c].pc = "raised" /\ calls[c].raised = "SchemaMismatch"

C9_Witness ==
  \E c, d \in Calls :
    /\ IsRpc(c) /\ ToOther(c) /\ calls[c].arity # 1
    /\ calls[c].raised = "SchemaMismatch"
    /\ IsRemote(d) /\ ToSelf(d) /\ calls[d].arity # 1
    /\ calls[d].raised = "SchemaMismatch"

\* C10: in a remoteTorchscript call to another worker the confirmation of the
\* fork is never invoked while the transport future is pending, never more
\* than once, and exactly once when the future has settled with a response
\* that decodes and the callback has been registered: the fork is then
\* confirmed.
C10_ConfirmOnceAfterSettle ==
  \A c \in Calls :
    (IsRemote(c) /\ ToOther(c) /\ calls[c].forkId # 0) =>
      /\ reg.confirmCalls[calls[c].forkId] <= 1
      /\ calls[c].tf \in {"none", "pending"} =>
           reg.confirmCalls[calls[c].forkId] = 0
      /\ (calls[c].tf = "ok" /\ calls[c].pc = "returned") =>
           /\ reg.confirmCalls[calls[c].forkId] = 1
           /\ calls[c].forkId \in reg.confirmed
           /\ calls[c].forkId \notin reg.pendingUsers

C10_Witness ==
  \E c \in Calls :
    /\ IsRemote(c) /\ ToOther(c) /\ calls[c].forkId # 0
    /\ calls[c].tf = "ok" /\ calls[c].ret = "user"
    /\ reg.confirmCalls[calls[c].forkId] = 1

\* C11: in a remoteTorchscript call to another worker, when the transport
\* future has settled as failed or with a response that does not decode and
\* the callback has run, the fork is no longer pending: it has been released.
C11_FailureReleasesFork ==
  \A c \in Calls :
    (IsRemote(c) /\ ToOther(c) /\ calls[c].forkId # 0 /\ Settled(calls[c].tf)
       /\ calls[c].tf # "ok") =>
      /\ calls[c].pc = "returned" => calls[c].cbRuns = 1
      /\ calls[c].cbRuns > 0 =>
           /\ calls[c].forkId \notin reg.pendingUsers
           /\ calls[c].forkId \in reg.released
           /\ calls[c].forkId \notin reg.confirmed

C11_Witness ==
  \E c, d \in Calls :
    /\ IsRemote(c) /\ ToOther(c) /\ calls[c].tf = "undecodable"
    /\ calls[c].cbRuns = 1 /\ calls[c].forkId \in reg.released
    /\ IsRemote(d) /\ ToOther(d) /\ calls[d].tf \in Errors
    /\ calls[d].cbRuns = 1 /\ calls[d].forkId \in reg.released

\* C12: in a remoteTorchscript call to the calling worker itself, when the
\* transport future has settled as failed and the callback has run, the owner
\* has been finalized once, with the failure; the Owner RRef is failed from then
\* on, a read of it is possible and no read has observed anything but the
\* failure.
C12_OwnerFailsForGood ==
  \A c \in Calls :
    (IsRemote(c) /\ ToSelf(c) /\ calls[c].tf \in Errors) =>
      /\ calls[c].pc = "returned" => calls[c].cbRuns = 1
      /\ calls[c].cbRuns > 0 =>
           /\ reg.finalCalls[calls[c].rrefId] = 1
           /\ reg.ownerState[calls[c].rrefId] = "failed"
           /\ calls[c].read \in {"none", "failed"}
           /\ calls[c].ret = "owner" => ENABLED ReadOwnerValue(c)

C12_Witness ==
  \E c \in Calls :
    /\ IsRemote(c) /\ ToSelf(c) /\ calls[c].tf \in Errors
    /\ reg.finalCalls[calls[c].rrefId] = 1
    /\ calls[c].read = "failed"

\* C13: when remoteTorchscript has created the reference and then building or
\* sending the message throws, no pending-fork entry and no self-fork entry of
\* that reference is left in the registry.
C13_SendFailureReleasesFork ==
  \A c \in Calls :
    (IsRemote(c) /\ calls[c].raised = "SendFailure") =>
      /\ calls[c].forkId \notin reg.pendingUsers
      /\ SelfForkOf(c) \notin reg.forks

\* C14: remoteTorchscript returns a User RRef exactly when the destination's id
\* differs from the calling worker's id and an Owner RRef exactly when the ids
\* are equal; no User RRef is owned by the calling worker; only calls to another
\* worker have pending forks and only calls to the calling worker itself have
\* self-forks.
C14_BranchOnLocality ==
  /\ \A c \in Calls :
       /\ calls[c].ret = "user" =>
            IsRemote(c) /\ ToOther(c) /\ UserOf(c) \in reg.users
       /\ calls[c].ret = "owner" =>
            IsRemote(c) /\ ToSelf(c) /\ calls[c].rrefId \in reg.owners
       /\ (IsRemote(c) /\ calls[c].pc = "returned") =>
            calls[c].ret = (IF ToOther(c) THEN "user" ELSE "owner")
       /\ (IsRemote(c) /\ ToSelf(c)) =>
            calls[c].forkId = 0 /\ calls[c].rrefId \notin EverPending
       /\ (IsRemote(c) /\ ToOther(c)) => SelfForkOf(c) \notin reg.forks
  /\ \A u \in reg.users : u[1] # getWorkerId
  /\ EverPending \subseteq
       {calls[c].forkId : c \in {d \in Calls : IsRemote(d) /\ ToOther(d)}}
  /\ reg.forks \subseteq
       {SelfForkOf(c) : c \in {d \in Calls : IsRemote(d) /\ ToSelf(d)}}

C14_Witness ==
  \E c, d \in Calls :
    /\ calls[c].ret = "user" /\ ToOther(c) /\ calls[c].forkId \in EverPending
    /\ calls[d].ret = "owner" /\ ToSelf(d) /\ SelfForkOf(d) \in reg.forks

\* C15: in a remoteTorchscript call to another worker, whenever the
\* confirmation callback has run, whether at the settlement of the transport
\* future or at addCallback on a future settled before, the fork was registered
\* as pending at that moment: no confirmation is misrouted, and the fork has
\* left the pending set by the confirmation.
C15_ConfirmFindsPending ==
  /\ reg.misrouted = {}
  /\ \A c \in Calls :
       (IsRemote(c) /\ ToOther(c) /\ calls[c].cbRuns > 0) =>
         /\ reg.confirmCalls[calls[c].forkId] > 0
         /\ calls[c].forkId \in reg.confirmed \cup reg.released
  /\ \A c \in Calls :
       (IsRemote(c) /\ ToOther(c) /\ Settled(calls[c].tf) /\ calls[c].cbRuns = 0) =>
         reg.confirmCalls[calls[c].forkId] = 0

C15_Witness ==
  \E c, d \in Calls :
    /\ IsRemote(c) /\ ToOther(c) /\ calls[c].cbRuns = 1 /\ ~calls[c].cbReg
    /\ IsRemote(d) /\ ToOther(d) /\ calls[d].cbRuns = 1 /\ calls[d].cbReg
    /\ {calls[c].forkId, calls[d].forkId} \subseteq reg.confirmed \cup reg.released

\* C16: when the transport future has settled before addCallback, the
\* callback has run exactly once, at addCallback, and as in the case of a later
\* settlement the returned future has been settled exactly once with nothing
\* raised to the caller, the fork has been confirmed or released exactly once,
\* the owner has been finalized exactly once.
C16_LateRegistrationSame ==
  \A c \in Calls :
    (~calls[c].cbReg /\ calls[c].cbRuns > 0) =>
      /\ calls[c].cbRuns = 1
      /\ IsRpc(c) => (calls[c].rSets = 1 /\ FutSettled(c) /\ calls[c].raised = "none")
      /\ (IsRemote(c) /\ ToOther(c)) => reg.confirmCalls[calls[c].forkId] = 1
      /\ (IsRemote(c) /\ ToSelf(c)) => reg.finalCalls[calls[c].rrefId] = 1

\* The User RRef calls whose fork id has been created.
ForkCalls == {c \in Calls : IsRemote(c) /\ ToOther(c) /\ calls[c].forkId # 0}

\* C17: interleaved remoteTorchscript calls to other workers have distinct RRef
\* and fork ids; the confirmations of a fork id are the callback runs of the one
\* call that owns it; a returned call whose transport future has settled has had
\* its fork confirmed or released, exactly once; and when that holds of every
\* such call no fork is pending.
C17_ForksKeptApart ==
  /\ \A c, d \in ForkCalls :
       c # d => {calls[c].rrefId, calls[c].forkId}
                  \cap {calls[d].rrefId, calls[d].forkId} = {}
  /\ \A c \in ForkCalls :
       /\ reg.confirmCalls[calls[c].forkId] = calls[c].cbRuns
       /\ reg.confirmCalls[calls[c].rrefId] = 0
       /\ calls[c].cbRuns <= 1
       /\ (calls[c].pc = "returned" /\ Settled(calls[c].tf)) =>
            /\ calls[c].cbRuns = 1
            /\ calls[c].forkId \notin reg.pendingUsers
            /\ (calls[c].forkId \in reg.confirmed) # (calls[c].forkId \in reg.released)
  /\ \A i \in Ids :
       reg.confirmCalls[i] > 0 => \E c \in ForkCalls : calls[c].forkId = i
  /\ (\A c \in ForkCalls :
        calls[c].pc \in {"returned", "raised"} /\ (calls[c].sends > 0 => Settled(calls[c].tf)))
       => reg.pendingUsers = {}

C17_Witness ==
  \E c, d \in ForkCalls :
    /\ c # d
    /\ calls[c].pc = "returned" /\ calls[d].pc = "returned"
    /\ calls[c].forkId \in reg.confirmed /\ calls[d].forkId \in reg.released
    /\ reg.pendingUsers = {}

\* C18: the message sent by remoteTorchscript carries the ids of the RRef the
\* call returns, (rrefId, forkId) of the User RRef or (rrefId, rrefId) of the
\* Owner RRef, and the callback confirms the fork id, or finalizes the owner id,
\* that the message carries, and no other.
C18_DescriptorIds ==
  /\ \A c \in Calls :
       (IsRemote(c) /\ calls[c].sends > 0) =>
         /\ calls[c].descr[1] # 0 /\ calls[c].descr[2] # 0
         /\ ToOther(c) =>
              /\ calls[c].descr = <<calls[c].rrefId, calls[c].forkId>>
              /\ <<getWorkerInfo(calls[c].dst), calls[c].descr[1], calls[c].descr[2]>>
                   \in reg.users
              /\ calls[c].pc = "returned" => calls[c].ret = "user"
              /\ reg.confirmCalls[calls[c].descr[2]] = calls[c].cbRuns
         /\ ToSelf(c) =>
              /\ calls[c].descr = <<calls[c].rrefId, calls[c].rrefId>>
              /\ calls[c].descr[1] \in reg.owners
              /\ calls[c].pc = "returned" => calls[c].ret = "owner"
              /\ reg.finalCalls[calls[c].descr[1]] = calls[c].cbRuns
  /\ \A i \in Ids :
       /\ reg.confirmCalls[i] > 0 =>
            \E c \in Calls : IsRemote(c) /\ ToOther(c) /\ calls[c].descr[2] = i
       /\ reg.finalCalls[i] > 0 =>
            \E c \in Calls : IsRemote(c) /\ ToSelf(c) /\ calls[c].descr[1] = i

C18_Witness ==
  \E c, d \in Calls :
    /\ calls[c].ret = "user" /\ calls[c].cbRuns = 1
    /\ reg.confirmCalls[calls[c].descr[2]] = 1
    /\ calls[c].descr[1] # calls[c].descr[2]
    /\ calls[d].ret = "owner" /\ calls[d].cbRuns = 1
    /\ reg.finalCalls[calls[d].descr[1]] = 1
    /\ calls[d].descr[1] = calls[d].descr[2]

\* C19: a callback that runs when the transport future has been destroyed
\* raises no error and changes neither the returned future nor the registry.
C19_ExpiredCallbackNoOp ==
  \A c \in Calls :
    calls[c].expired # "none" =>
      /\ calls[c].expired = "noop"
      /\ calls[c].cbRuns = 0
      /\ IsRpc(c) => calls[c].rSets = 0
      /\ (IsRemote(c) /\ ToOther(c)) => reg.confirmCalls[calls[c].forkId] = 0
      /\ (IsRemote(c) /\ ToSelf(c)) => reg.finalCalls[calls[c].rrefId] = 0

\* C20: a step in which remoteTorchscript fails because the destination is
\* unknown or the return arity is not one leaves the registry as it was, has
\* created no RRef id and has sent nothing; and the frame of a failed call, and
\* with it the registry on its behalf, does not change afterwards.
C20_SyncFailureFrame ==
  [][\A c \in Calls :
       /\ (calls[c].pc = "idle" /\ calls'[c].kind = "remote"
             /\ (getWorkerInfo(calls'[c].dst) = "unknown" \/ calls'[c].arity # 1)) =>
            /\ calls'[c].pc = "raised"
            /\ calls'[c].raised \in {"UnknownWorker", "SchemaMismatch"}
            /\ reg' = reg
            /\ calls'[c].sends = 0 /\ calls'[c].tf = "none"
            /\ calls'[c].rrefId = 0 /\ calls'[c].forkId = 0
       /\ (IsRemote(c) /\ calls[c].raised \in {"UnknownWorker", "SchemaMismatch"}) =>
            calls'[c] = calls[c]]_vars

C20_Witness ==
  \E c, d \in Calls :
    /\ IsRemote(c) /\ calls[c].raised = "UnknownWorker"
    /\ IsRemote(d) /\ calls[d].raised = "SchemaMismatch"
    /\ reg = InitReg

====
